---- MODULE Spec2Model ----
(***************************************************************************)
(* A model of the cpanel-site-checker change-detection engine:             *)
(*   cpanel_checker/site_checker.py  (SiteChecker)                         *)
(*   cpanel_checker/screenshot.py    (ScreenshotManager)                   *)
(*   cpanel_checker/domain_validator.py, database.py, whm_api.py           *)
(* Names and paths are TLA+ strings handled character by character, the    *)
(* way the Python code handles them (startswith, slicing, int(), glob,     *)
(* str comparison).                                                        *)
(***************************************************************************)
EXTENDS Integers, Sequences, FiniteSets, TLC

VARIABLES
    today,      \* datetime.now().strftime('%Y%m%d')
    dirs,       \* the directories that exist (paths)
    files,      \* the regular files that exist: path -> content
    pc,         \* where check_accounts stands: "idle", "accounts", "domains"
    call,       \* the last check_accounts call: host, date, directory, the
                \* account at hand, the <<user, domain>> pairs it enumerated,
                \* those the allow-list accepted, those whose row was dropped
    accounts,   \* the accounts check_accounts still has to process
    domains,    \* the allow-listed domains of the current account still to fetch
    result,     \* the last _fetch_page call: the dict returned and its locals
    sink,       \* the rows of the check_results table
    exit,       \* how the last check_accounts call ended
    ncalls,     \* the number of check_accounts calls started
    nfaults,    \* the number of exceptions raised while fetching and logging so far
    allocated   \* the last value _get_next_date_serial returned (or raised)

vars == <<today, dirs, files, pc, call, accounts, domains, result, sink, exit,
          ncalls, nfaults, allocated>>

None == "None"

(***************************************************************************)
(* Python strings.                                                         *)
(***************************************************************************)
Digits == {"0", "1", "2", "3", "4", "5", "6", "7", "8", "9"}

DigitVal ==
    "0" :> 0 @@ "1" :> 1 @@ "2" :> 2 @@ "3" :> 3 @@ "4" :> 4 @@
    "5" :> 5 @@ "6" :> 6 @@ "7" :> 7 @@ "8" :> 8 @@ "9" :> 9

DigitChar == <<"1", "2", "3", "4", "5", "6", "7", "8", "9">>

\* The characters the model's names are written in, with their code points.
CharCode ==
    " " :> 32 @@ "+" :> 43 @@ "-" :> 45 @@ "." :> 46 @@ "/" :> 47 @@
    "0" :> 48 @@ "1" :> 49 @@ "2" :> 50 @@ "3" :> 51 @@ "4" :> 52 @@
    "5" :> 53 @@ "6" :> 54 @@ "7" :> 55 @@ "8" :> 56 @@ "9" :> 57 @@
    "_" :> 95 @@
    "a" :> 97 @@ "b" :> 98 @@ "c" :> 99 @@ "d" :> 100 @@ "e" :> 101 @@
    "f" :> 102 @@ "g" :> 103 @@ "h" :> 104 @@ "i" :> 105 @@ "j" :> 106 @@
    "k" :> 107 @@ "l" :> 108 @@ "m" :> 109 @@ "n" :> 110 @@ "o" :> 111 @@
    "p" :> 112 @@ "q" :> 113 @@ "r" :> 114 @@ "s" :> 115 @@ "t" :> 116 @@
    "u" :> 117 @@ "v" :> 118 @@ "w" :> 119 @@ "x" :> 120 @@ "y" :> 121 @@
    "z" :> 122

Char(s, i) == SubSeq(s, i, i)

\* s[a:] and s[:b] of Python, 0-based.
SliceFrom(s, a) == IF a >= Len(s) THEN "" ELSE SubSeq(s, a + 1, Len(s))
SliceTo(s, b) == IF b >= Len(s) THEN s ELSE SubSeq(s, 1, b)

StartsWith(s, p) == Len(p) <= Len(s) /\ SubSeq(s, 1, Len(p)) = p
EndsWith(s, p) == Len(p) <= Len(s) /\ SubSeq(s, Len(s) - Len(p) + 1, Len(s)) = p

\* str.isdigit(): non-empty and every character a digit.
IsDigit(s) == Len(s) > 0 /\ \A i \in 1..Len(s) : Char(s, i) \in Digits

\* Python's a < b on str: by code point, a proper prefix is smaller.
RECURSIVE StrLess(_, _)
StrLess(a, b) ==
    IF Len(b) = 0 THEN FALSE
    ELSE IF Len(a) = 0 THEN TRUE
    ELSE IF Head(a) = Head(b) THEN StrLess(Tail(a), Tail(b))
    ELSE CharCode[Head(a)] < CharCode[Head(b)]

\* str.strip() for the blank the model's alphabet has.
RECURSIVE LStrip(_)
LStrip(s) == IF Len(s) > 0 /\ Head(s) = " " THEN LStrip(Tail(s)) ELSE s
RECURSIVE RStrip(_)
RStrip(s) ==
    IF Len(s) > 0 /\ Char(s, Len(s)) = " " THEN RStrip(SubSeq(s, 1, Len(s) - 1)) ELSE s

\* The value of a digit string in which single underscores may separate digits;
\* -1 when the string is not of that form.
RECURSIVE DigitsValue(_, _, _)
DigitsValue(s, acc, lastWasDigit) ==
    IF Len(s) = 0 THEN (IF lastWasDigit THEN acc ELSE -1)
    ELSE IF Head(s) \in Digits
         THEN DigitsValue(Tail(s), 10 * acc + DigitVal[Head(s)], TRUE)
    ELSE IF Head(s) = "_" /\ lastWasDigit
         THEN DigitsValue(Tail(s), acc, FALSE)
    ELSE -1

\* int(s): blanks around are stripped, one sign is accepted, then decimal digits.
\* RaisesValueError(s) tells whether int(s) raises, PyInt(s) is its value otherwise.
IntBody(s) ==
    LET t == RStrip(LStrip(s))
    IN  IF Len(t) > 0 /\ Head(t) \in {"+", "-"} THEN Tail(t) ELSE t

IntNegative(s) ==
    LET t == RStrip(LStrip(s)) IN Len(t) > 0 /\ Head(t) = "-"

RaisesValueError(s) == DigitsValue(IntBody(s), 0, FALSE) = -1

PyInt(s) ==
    LET v == DigitsValue(IntBody(s), 0, FALSE)
    IN  IF IntNegative(s) THEN 0 - v ELSE v

\* str(n) for n >= 0.
RECURSIVE PyStr(_)
PyStr(n) ==
    IF n < 10 THEN (IF n = 0 THEN "0" ELSE DigitChar[n])
    ELSE PyStr(n \div 10) \o PyStr(n % 10)

\* f"{n:02d}" for n >= 0.
Fmt02d(n) == IF n < 10 THEN "0" \o PyStr(n) ELSE PyStr(n)

Max(a, b) == IF a >= b THEN a ELSE b

(***************************************************************************)
(* The file system under output_dir.                                       *)
(***************************************************************************)
output_dir == "."

\* os.path.join for relative components.
Join(a, b) == a \o "/" \o b

Exists(p) == p \in dirs \/ p \in DOMAIN files

\* path.split(os.sep)
RECURSIVE SplitFrom(_, _)
SplitFrom(s, cur) ==
    IF Len(s) = 0 THEN <<cur>>
    ELSE IF Head(s) = "/" THEN <<cur>> \o SplitFrom(Tail(s), "")
    ELSE SplitFrom(Tail(s), cur \o Head(s))
Split(s) == SplitFrom(s, "")

\* os.listdir(d): the names of the entries directly in d.
ListDir(d) ==
    { Split(p)[Len(Split(d)) + 1] :
        p \in { q \in dirs \cup DOMAIN files :
                  /\ StartsWith(q, d \o "/")
                  /\ Len(Split(q)) = Len(Split(d)) + 1 } }

(***************************************************************************)
(* SiteChecker._get_next_date_serial                                       *)
(***************************************************************************)
RuntimeError == "RuntimeError"

MAX_SERIAL == 99

\* The serial a directory name contributes to max_serial (0: none).
SerialOf(dirname) ==
    IF Len(dirname) = 10 /\ ~RaisesValueError(SliceFrom(dirname, 8))
    THEN PyInt(SliceFrom(dirname, 8))
    ELSE 0

RECURSIVE MaxSerial(_)
MaxSerial(names) ==
    IF names = {} THEN 0
    ELSE LET n == CHOOSE x \in names : TRUE
         IN  Max(SerialOf(n), MaxSerial(names \ {n}))

\* An allocator that looks at nothing and hands out the first serial of the
\* day.
GetFirstDateSerial == today \o Fmt02d(1)

\* An allocator that also counts the identifiers handed out to invocations
\* that have not created their directory yet.
GetNextDateSerialReserving ==
    LET existing_dirs ==
            ({ entry \in ListDir(output_dir) :
                 Join(output_dir, entry) \in dirs /\ StartsWith(entry, today) }
             \cup { allocated[i] : i \in DOMAIN allocated }) \ {None}
        next_serial == MaxSerial(existing_dirs) + 1
    IN  IF next_serial > MAX_SERIAL THEN RuntimeError
        ELSE today \o Fmt02d(next_serial)

GetNextDateSerial ==
    LET existing_dirs ==
            IF Exists(output_dir)
            THEN { entry \in ListDir(output_dir) :
                     Join(output_dir, entry) \in dirs /\ StartsWith(entry, today) }
            ELSE {}
        next_serial == MaxSerial(existing_dirs) + 1
    IN  IF next_serial > MAX_SERIAL THEN RuntimeError
        ELSE today \o Fmt02d(next_serial)

(***************************************************************************)
(* The allocator on its own: any small set of entries under output_dir,    *)
(* then one call of _get_next_date_serial.                                 *)
(***************************************************************************)
MaxEntries == 2

AllocDates == {"20250101", "20241231"}

AllocSuffixes ==
    {"", "0", "00", "01", "02", "09", "10", "98", "99", "+5", " 7", "-3", "ab", "1a", "015"}

AllocNames == { d \o s : d \in AllocDates, s \in AllocSuffixes }

RECURSIVE SubsetsUpTo(_, _)
SubsetsUpTo(S, k) ==
    IF k = 0 THEN {{}}
    ELSE LET smaller == SubsetsUpTo(S, k - 1)
         IN  smaller \cup { T \cup {x} : T \in smaller, x \in S }

\* Before any call of check_accounts, and before any call of _fetch_page.
NoCall ==
    [host |-> None, date |-> None, directory |-> None, username |-> None,
     enumerated |-> <<>>, allowed |-> <<>>, dropped |-> <<>>]

NoFetch ==
    [called |-> FALSE, result |-> <<>>, user |-> None, domain |-> None,
     directory |-> None, captured |-> FALSE, fault |-> "none",
     current_content |-> None,
     previous_txt_file |-> None, previous_screenshot |-> None, hash_distance |-> {}]

EngineIdle ==
    /\ pc = "idle"
    /\ call = NoCall
    /\ accounts = <<>>
    /\ domains = <<>>
    /\ result = NoFetch
    /\ sink = <<>>
    /\ exit = None
    /\ ncalls = 0
    /\ nfaults = 0

InitAlloc ==
    /\ today = "20250101"
    /\ \E D \in SubsetsUpTo(AllocNames, MaxEntries) :
         \E F \in SubsetsUpTo(AllocNames \ D, 1) :
            /\ dirs = {output_dir} \cup { Join(output_dir, n) : n \in D }
            /\ files = [p \in { Join(output_dir, n) : n \in F } |-> "x"]
    /\ allocated = None
    /\ EngineIdle

\* One call of _get_next_date_serial.
Allocate ==
    /\ allocated = None
    /\ allocated' = GetNextDateSerial
    /\ UNCHANGED <<today, dirs, files, pc, call, accounts, domains, result, sink,
                   exit, ncalls, nfaults>>

NextAlloc == Allocate

SpecAlloc == InitAlloc /\ [][NextAlloc]_vars

\* The directories under output_dir that are well-formed identifiers for today:
\* the date followed by a 2-digit serial.
WellFormedToday ==
    { n \in ListDir(output_dir) :
        /\ Join(output_dir, n) \in dirs
        /\ Len(n) = 10
        /\ SliceTo(n, 8) = today
        /\ IsDigit(SliceFrom(n, 8)) }

TwoDigitSerial(n) == 10 * DigitVal[Char(n, 9)] + DigitVal[Char(n, 10)]

ClaimedMax ==
    IF WellFormedToday = {} THEN 0
    ELSE CHOOSE m \in { TwoDigitSerial(n) : n \in WellFormedToday } :
            \A n \in WellFormedToday : TwoDigitSerial(n) <= m

\* C1: _get_next_date_serial returns today's date followed by max+1 in two
\* digits, max being the largest serial among the well-formed identifiers for
\* today (0 when there are none, a bare date counting as 0), and raises
\* RuntimeError when max is 99.
C1_NextSerialIsMaxPlusOne ==
    allocated # None =>
        allocated = IF ClaimedMax = 99 THEN RuntimeError
                    ELSE today \o Fmt02d(ClaimedMax + 1)

(***************************************************************************)
(* Lineage: SiteChecker._find_previous_txt_file and                        *)
(* ScreenshotManager.find_previous_screenshot, on a file system fs.        *)
(***************************************************************************)
\* glob's '*' for one path component: anything but a hidden name.
StarMatches(name) == Len(name) > 0 /\ Head(name) # "."

\* The paths glob.glob(os.path.join(output_dir, '*', '*', <last>)) can yield
\* whatever <last> is: the files two levels below output_dir, in directories
\* whose names '*' matches.
GlobRunHost(fs) ==
    LET depth == Len(Split(output_dir))
    IN  { p \in DOMAIN fs :
            /\ StartsWith(p, output_dir \o "/")
            /\ \E parts \in {Split(p)} :
                  /\ Len(parts) = depth + 3
                  /\ StarMatches(parts[depth + 1])
                  /\ StarMatches(parts[depth + 2]) }

\* The last component of a path, the one the pattern's last component is
\* matched against.
Basename(path) == Split(path)[Len(Split(path))]

\* The first path component that looks like YYYYMMDDnn or YYYYMMDD, from a
\* sequence of components; '0000000000' when there is none.
RECURSIVE FirstDatePart(_)
FirstDatePart(parts) ==
    IF parts = <<>> THEN "0000000000"
    ELSE IF (Len(Head(parts)) = 10 \/ Len(Head(parts)) = 8)
            /\ IsDigit(SliceTo(Head(parts), 8))
         THEN Head(parts)
    ELSE FirstDatePart(Tail(parts))

\* extract_date(path), the sort key.
ExtractDate(path) == FirstDatePart(Split(path))

\* The filter on the glob's matches: what does not lie in current_directory.
NotInCurrent(matching_files, current_directory) ==
    { f \in matching_files : ~StartsWith(f, current_directory) }

\* An ordering that puts every 10-character run directory above every
\* 8-character one, and compares by string value within each form.
MostRecentSerialFirst(matching_files) ==
    LET Above(f, g) ==
            \/ Len(ExtractDate(f)) > Len(ExtractDate(g))
            \/ /\ Len(ExtractDate(f)) = Len(ExtractDate(g))
               /\ ~StrLess(ExtractDate(f), ExtractDate(g))
    IN  { f \in matching_files : \A g \in matching_files : Above(f, g) }

\* matching_files.sort(key=extract_date, reverse=True); matching_files[0]: a
\* file whose key is the greatest. glob yields the files in no particular
\* order and the sort is stable, so any file with the greatest key may come
\* first: the set of the values the search can return ({} stands for None).
MostRecent(matching_files) ==
    { f \in matching_files :
        \A g \in matching_files : ~StrLess(ExtractDate(f), ExtractDate(g)) }

FindPreviousTxtFile(fs, user, domain, current_directory) ==
    LET name == user \o "-" \o domain \o ".txt"
        matching_files == { p \in GlobRunHost(fs) : Basename(p) = name }
    IN  MostRecent(NotInCurrent(matching_files, current_directory))

FindPreviousScreenshot(fs, domain, current_directory) ==
    LET matching_files ==
            { p \in GlobRunHost(fs) :
                /\ StarMatches(Basename(p))
                /\ EndsWith(Basename(p), "-" \o domain \o ".png") }
    IN  MostRecent(NotInCurrent(matching_files, current_directory))

\* What a search returned: one of the files it can return, or None.
Returned(candidates) == IF candidates = {} THEN {None} ELSE candidates

\* The run directory name the result records for a predecessor: the first
\* date-like component of its path, None when there is none.
RECURSIVE PreviousRun(_)
PreviousRun(parts) ==
    IF parts = <<>> THEN None
    ELSE IF (Len(Head(parts)) = 10 \/ Len(Head(parts)) = 8)
            /\ IsDigit(SliceTo(Head(parts), 8))
         THEN Head(parts)
    ELSE PreviousRun(Tail(parts))

(***************************************************************************)
(* ScreenshotManager: images are a width and a perceptual hash.            *)
(***************************************************************************)
HASH_DISTANCE_THRESHOLD == 5

CAPTURE_WIDTH == 1440

THUMBNAIL_WIDTH == 500

\* A distance that counts only the bits set in the first hash and clear in
\* the second: it depends on the order of the two images.
RECURSIVE HashDistanceOneSided(_, _)
HashDistanceOneSided(h1, h2) ==
    IF Len(h1) = 0 THEN 0
    ELSE (IF Head(h1) = "1" /\ Head(h2) = "0" THEN 1 ELSE 0)
         + HashDistanceOneSided(Tail(h1), Tail(h2))

\* hash1 - hash2 of imagehash: the number of bits that differ.
RECURSIVE HashDistance(_, _)
HashDistance(h1, h2) ==
    IF Len(h1) = 0 THEN 0
    ELSE (IF Head(h1) = Head(h2) THEN 0 ELSE 1) + HashDistance(Tail(h1), Tail(h2))

\* The threshold test with the boundary left out: a distance equal to the
\* threshold counts as a change.
WithinThresholdStrict(hash_distance) == hash_distance < HASH_DISTANCE_THRESHOLD

\* hash_distance <= HASH_DISTANCE_THRESHOLD, the test of _fetch_page.
WithinThreshold(hash_distance) == hash_distance <= HASH_DISTANCE_THRESHOLD

\* hash_distance > HASH_DISTANCE_THRESHOLD, the test of compare_screenshots
\* for writing the diff image.
WritesDiff(hash_distance) == hash_distance > HASH_DISTANCE_THRESHOLD

\* str.replace(old, new): every occurrence, left to right.
RECURSIVE Replace(_, _, _)
Replace(s, old, new) ==
    IF Len(s) = 0 THEN ""
    ELSE IF StartsWith(s, old) THEN new \o Replace(SliceFrom(s, Len(old)), old, new)
    ELSE Head(s) \o Replace(Tail(s), old, new)

\* The file system with p written, and with p removed.
Written(fs, p, content) == (p :> content) @@ fs
Removed(fs, p) == [q \in DOMAIN fs \ {p} |-> fs[q]]

(***************************************************************************)
(* SiteChecker._fetch_page.  A result is a Python dict: a function whose   *)
(* domain is the keys present.  Status codes are written as strings.       *)
(***************************************************************************)
EmptyDict == <<>>

\* {k: v} when v is truthy, {} otherwise.
Opt(k, v) == IF v = None THEN EmptyDict ELSE k :> v

\* result.get(k)
Get(d, k) == IF k \in DOMAIN d THEN d[k] ELSE None

\* What one capture can see: the page the browser ends on.
\* Between two of them the text is the same, the same but for a carriage
\* return before the end of the line, or not the same, and the perceptual
\* hashes are 0, 1, 5 or 6 bits apart.
Renderings ==
    { [text |-> "t0", hash |-> "000000"],
      [text |-> "t0\r", hash |-> "000000"],
      [text |-> "t0", hash |-> "011111"],
      [text |-> "t1", hash |-> "111111"] }

Pages(domain) ==
    { [location |-> "https://" \o domain, code |-> "200", text |-> r.text,
       hash |-> r.hash] : r \in Renderings }

\* The exceptions capture_screenshot lets through, all raised by the browser
\* before the screenshot is saved: the origin refuses the connection
\* (net::ERR_CONNECTION_REFUSED), the redirects do not end
\* (net::ERR_TOO_MANY_REDIRECTS), anything else.
CaptureFaults == {"unreachable", "too_many_redirects", "capture"}

\* The step of _fetch_page at which an exception is raised ("none": nowhere).
Faults ==
    CaptureFaults \cup
    {"none", "find_element", "write_txt", "resize", "read_txt",
     "remove_txt", "compare", "write_diff", "remove_png"}

\* str(ex)
ErrorText(fault) == "error: " \o fault

\* The content written to html_file.
TextOf(page) == page.location \o "\n" \o page.code \o "\n" \o page.text \o "\n"

\* hashlib.sha256(page_text).hexdigest(), uninterpreted.
Sha256(text) == "sha256(" \o text \o ")"

HtmlFile(user, domain, directory) == Join(directory, user \o "-" \o domain \o ".txt")
PngFile(user, domain, directory) == Join(directory, user \o "-" \o domain \o ".png")
DiffFile(png_file) == Replace(png_file, ".png", "-diff.png")

\* The short-circuit test looking for the text artifact under the .html name
\* of the legacy checker, which the engine never writes.
AlreadyDoneLegacy(fs, html_file, png_file) ==
    Replace(html_file, ".txt", ".html") \in DOMAIN fs /\ png_file \in DOMAIN fs

\* The test that short-circuits _fetch_page.
AlreadyDone(fs, html_file, png_file) == html_file \in DOMAIN fs /\ png_file \in DOMAIN fs

\* The status given to the image that is within the threshold of its predecessor.
IdenticalScreenshotStatus == "deleted_identical"

\* f.read() of a file opened with open(path, 'r'): the content with every
\* line ending, "\r\n" or "\r", read as "\n".
RECURSIVE ReadText(_)
ReadText(content) ==
    IF Len(content) = 0 THEN ""
    ELSE IF StartsWith(content, "\r\n") THEN "\n" \o ReadText(SliceFrom(content, 2))
    ELSE IF Head(content) = "\r" THEN "\n" \o ReadText(Tail(content))
    ELSE Head(content) \o ReadText(Tail(content))

\* The text comparison and what follows it: the file system, txt_status and
\* txt_previous_date_serial afterwards, and whether the exception of `fault`
\* was raised (it is caught and logged).
TxtStage(fs, html_file, previous_txt_file, fault) ==
    IF previous_txt_file = None
    THEN [fs |-> fs, status |-> None, run |-> None, raised |-> FALSE]
    ELSE IF fault = "read_txt"
    THEN [fs |-> fs, status |-> None, run |-> None, raised |-> TRUE]
    ELSE IF ReadText(fs[html_file]) = ReadText(fs[previous_txt_file])
    THEN IF fault = "remove_txt"
         THEN [fs |-> fs, status |-> None, run |-> None, raised |-> TRUE]
         ELSE [fs |-> Removed(fs, html_file), status |-> "deleted_duplicate",
               run |-> PreviousRun(Split(previous_txt_file)), raised |-> FALSE]
    ELSE [fs |-> fs, status |-> "different",
          run |-> PreviousRun(Split(previous_txt_file)), raised |-> FALSE]

\* compare_screenshots(png_file, previous_screenshot, diff_file): the file
\* system afterwards and the distance returned ({} stands for None, returned
\* when an exception was raised and logged).
CompareScreenshots(fs, png_file, previous_screenshot, diff_file, fault) ==
    LET d == HashDistance(fs[png_file].hash, fs[previous_screenshot].hash)
    IN  IF fault = "compare" THEN [fs |-> fs, distance |-> {}]
        ELSE IF WritesDiff(d)
        THEN IF fault = "write_diff" THEN [fs |-> fs, distance |-> {}]
             ELSE [fs |-> Written(fs, diff_file,
                                  [width |-> fs[png_file].width, hash |-> "diff"]),
                   distance |-> {d}]
        ELSE [fs |-> fs, distance |-> {d}]

\* The image comparison and what follows it: the file system, hash_distance,
\* screenshot_status and screenshot_previous_date_serial afterwards; caught:
\* compare_screenshots caught an exception; raised: os.remove(png_file) raised.
PngStage(fs, png_file, previous_screenshot, fault) ==
    IF previous_screenshot = None
    THEN [fs |-> fs, distance |-> {}, status |-> None, run |-> None,
          caught |-> FALSE, raised |-> FALSE]
    ELSE LET diff_file == DiffFile(png_file)
             c == CompareScreenshots(fs, png_file, previous_screenshot, diff_file, fault)
             d == CHOOSE x \in c.distance : TRUE
             run == PreviousRun(Split(previous_screenshot))
         IN  IF c.distance = {}
             THEN [fs |-> c.fs, distance |-> {}, status |-> None, run |-> None,
                   caught |-> TRUE, raised |-> FALSE]
             ELSE IF WithinThreshold(d)
             THEN IF fault = "remove_png"
                  THEN [fs |-> c.fs, distance |-> {d}, status |-> None, run |-> run,
                        caught |-> FALSE, raised |-> TRUE]
                  ELSE [fs |-> Removed(Removed(c.fs, png_file), diff_file),
                        distance |-> {d}, status |-> IdenticalScreenshotStatus,
                        run |-> run, caught |-> FALSE, raised |-> FALSE]
             ELSE [fs |-> c.fs, distance |-> {d}, status |-> "different", run |-> run,
                   caught |-> FALSE, raised |-> FALSE]

\* The dict _fetch_page returns at the end of the try block.
ResultDict(page, t, g) ==
    [location |-> page.location, code |-> page.code, digest |-> Sha256(page.text)]
    @@ Opt("txt_status", t.status)
    @@ Opt("txt_previous_run", t.run)
    @@ (IF g.distance # {} /\ g.status # IdenticalScreenshotStatus
        THEN "screenshot_hash_distance" :> (CHOOSE x \in g.distance : TRUE)
        ELSE EmptyDict)
    @@ Opt("screenshot_status", g.status)
    @@ Opt("screenshot_previous_run", g.run)

\* _fetch_page(user, domain, directory) on file system fs, seeing `page`, with
\* an exception at step `fault` if that step is reached: the set of its
\* possible outcomes (the lineage searches may have several).  An outcome is
\* the file system afterwards, the dict returned, and the locals of the call;
\* its fault is the step where an exception was raised, "none" if none was.
FetchPage(fs, user, domain, directory, page, fault) ==
    LET html_file == HtmlFile(user, domain, directory)
        png_file == PngFile(user, domain, directory)
        Out(f, r, cap, pt, pp, hd, hit) ==
            [called |-> TRUE, files |-> f, result |-> r, user |-> user, domain |-> domain,
             directory |-> directory, captured |-> cap,
             current_content |-> IF pt = None THEN None ELSE TextOf(page),
             fault |-> IF hit THEN fault ELSE "none",
             previous_txt_file |-> pt, previous_screenshot |-> pp,
             hash_distance |-> hd]
        Error(f, pt, pp, hd) ==
            Out(f, "code" :> ErrorText(fault), TRUE, pt, pp, hd, TRUE)
        fs1 == Written(fs, png_file, [width |-> CAPTURE_WIDTH, hash |-> page.hash])
        fs2 == Written(fs1, html_file, TextOf(page))
        fs3 == IF fault = "resize" THEN fs2
               ELSE Written(fs2, png_file, [width |-> THUMBNAIL_WIDTH, hash |-> page.hash])
    IN  IF AlreadyDone(fs, html_file, png_file)
        THEN { Out(fs, "code" :> "skipped", FALSE, None, None, {}, FALSE) }
        ELSE IF fault \in CaptureFaults THEN { Error(fs, None, None, {}) }
        ELSE IF fault \in {"find_element", "write_txt"} THEN { Error(fs1, None, None, {}) }
        ELSE UNION {
               LET t == TxtStage(fs3, html_file, pt, fault)
               IN  { LET g == PngStage(t.fs, png_file, pp, fault)
                     IN  IF g.raised THEN Error(g.fs, pt, pp, g.distance)
                         ELSE Out(g.fs, ResultDict(page, t, g), TRUE, pt, pp, g.distance,
                                  fault = "resize" \/ t.raised \/ g.caught)
                     : pp \in Returned(FindPreviousScreenshot(t.fs, domain, directory)) }
               : pt \in Returned(FindPreviousTxtFile(fs3, user, domain, directory)) }

(***************************************************************************)
(* SiteChecker.check_accounts, one step at a time: the call up to the      *)
(* account list, then one account, then one domain.                        *)
(***************************************************************************)
MaxCalls == 2

MaxFaults == 1

\* How many calls there are in a behaviour of calls that end at the account
\* list.
MaxRuns == 2

Hosts == {"h1", "h2"}

\* The date argument of check_accounts: None, or a run to write into.
DateArgs == {None, "2025010101"}

\* whm_client.list_accounts() of each host.
ListAccounts(host) ==
    IF host = "h1"
    THEN << [user |-> "u", domain |-> "a.com", suspended |-> FALSE],
            [user |-> "s", domain |-> "s.com", suspended |-> TRUE] >>
    ELSE << [user |-> "u", domain |-> "a.com", suspended |-> FALSE] >>

\* whm_client.list_addon_domains(username) of each host.
ListAddonDomains(host, username) ==
    IF host = "h1" /\ username = "u" THEN << [domain |-> "b-a.com"] >> ELSE <<>>

\* What domain_validator.check_in_whitelist(domain) can do: accept, reject with
\* a reason, or raise something other than socket.gaierror.
AllowOutcomes == {"ok", "unresolvable", "not_whitelisted", "raise"}

\* Path(directory).mkdir(parents=True, exist_ok=True)
Mkdir(ds, date, host) ==
    ds \cup {Join(output_dir, date), Join(Join(output_dir, date), host)}

\* check_accounts(host, hash_key, ip_allowlist, date) up to the loop over the
\* accounts.  accounts_ok: list_accounts() returned.
CheckAccounts(host, date_arg, accounts_ok) ==
    /\ pc = "idle"
    /\ ncalls < (IF accounts_ok THEN MaxCalls ELSE MaxRuns)
    /\ ncalls' = ncalls + 1
    /\ result' = NoFetch
    /\ domains' = <<>>
    /\ LET date == IF date_arg = None THEN GetNextDateSerial ELSE date_arg
       IN  /\ allocated' = IF date_arg = None THEN date ELSE allocated
           /\ IF date = RuntimeError
              THEN /\ exit' = "RuntimeError"
                   /\ UNCHANGED <<dirs, pc, call, accounts>>
              ELSE /\ dirs' = Mkdir(dirs, date, host)
                   /\ call' = [host |-> host, date |-> date,
                               directory |-> Join(Join(output_dir, date), host),
                               username |-> None, enumerated |-> <<>>,
                               allowed |-> <<>>, dropped |-> <<>>]
                   /\ IF accounts_ok
                      THEN /\ accounts' = ListAccounts(host)
                           /\ pc' = "accounts"
                           /\ exit' = None
                      ELSE /\ exit' = "sys.exit(1)"
                           /\ UNCHANGED <<pc, accounts>>
    /\ UNCHANGED <<today, files, sink, nfaults>>

\* The domains of all_domains that pass the allow-list, in order;
\* outcome[i] is what check_in_whitelist did for the i-th.
RECURSIVE Allowed(_, _, _)
Allowed(all_domains, outcome, i) ==
    IF i > Len(all_domains) THEN <<>>
    ELSE LET domain == all_domains[i].domain
         IN  (IF domain # "" /\ outcome[i] = "ok" THEN <<domain>> ELSE <<>>)
             \o Allowed(all_domains, outcome, i + 1)

\* The 'domain' values of a list of dicts, and <<user, domain>> for each of a
\* list of domains.
DomainsOf(all_domains) == [i \in 1..Len(all_domains) |-> all_domains[i].domain]
Pairs(username, doms) == [i \in 1..Len(doms) |-> <<username, doms[i]>>]

\* One turn of the loop over the accounts, up to the loop over its domains.
\* addons_ok: the addon-domain request succeeded (list_addon_domains returns
\* [] when it did not).
ProcessAccount(addons_ok, outcome) ==
    /\ pc = "accounts"
    /\ accounts # <<>>
    /\ LET acct == Head(accounts)
           username == acct.user
           domlist == IF addons_ok THEN ListAddonDomains(call.host, username) ELSE <<>>
           all_domains == <<acct>> \o domlist
       IN  IF acct.suspended
           THEN /\ accounts' = Tail(accounts)
                /\ UNCHANGED <<pc, call, domains, exit>>
           ELSE /\ DOMAIN outcome = 1..Len(all_domains)
                /\ IF \E i \in 1..Len(all_domains) :
                          all_domains[i].domain # "" /\ outcome[i] = "raise"
                   THEN \* the exception leaves check_accounts
                        /\ pc' = "idle"
                        /\ exit' = "exception"
                        /\ UNCHANGED <<call, accounts, domains>>
                   ELSE /\ accounts' = Tail(accounts)
                        /\ domains' = Allowed(all_domains, outcome, 1)
                        /\ call' = [call EXCEPT
                              !.username = username,
                              !.enumerated = @ \o Pairs(username, DomainsOf(all_domains)),
                              !.allowed = @ \o Pairs(username, domains')]
                        /\ pc' = IF domains' = <<>> THEN "accounts" ELSE "domains"
                        /\ UNCHANGED exit
    /\ UNCHANGED <<today, dirs, files, result, sink, ncalls, nfaults, allocated>>

\* db_logger.log_check_result(host, user, domain, result): the row inserted.
Row(host, user, domain, r) ==
    [timestamp |-> ncalls, host |-> host, user |-> user, domain |-> domain,
     code |-> Get(r, "code"), location |-> Get(r, "location"),
     digest |-> Get(r, "digest"), txt_status |-> Get(r, "txt_status"),
     txt_previous_run |-> Get(r, "txt_previous_run"),
     screenshot_hash_distance |-> Get(r, "screenshot_hash_distance"),
     screenshot_status |-> Get(r, "screenshot_status"),
     screenshot_previous_run |-> Get(r, "screenshot_previous_run")]

\* A sink that records only the results of a completed capture and loses the
\* error results.
LoggedOnlyNormal(rows, host, user, domain, r, insert_ok) ==
    IF insert_ok /\ "location" \in DOMAIN r
    THEN Append(rows, Row(host, user, domain, r))
    ELSE rows

\* The table after log_check_result: an insert that fails is logged and dropped.
Logged(rows, host, user, domain, r, insert_ok) ==
    IF insert_ok THEN Append(rows, Row(host, user, domain, r)) ELSE rows

\* One turn of the loop over the domains: _fetch_page, then the log line and
\* the database row.  insert_ok: the INSERT and the commit went through.
FetchDomain(page, fault, insert_ok) ==
    /\ pc = "domains"
    /\ domains # <<>>
    /\ (fault = "none" /\ insert_ok) \/ nfaults < MaxFaults
    /\ LET dom == Head(domains)
       IN  /\ page \in Pages(dom)
           /\ \E o \in FetchPage(files, call.username, dom, call.directory, page,
                                 fault) :
                /\ fault = o.fault
                /\ nfaults' = nfaults + (IF fault = "none" THEN 0 ELSE 1)
                                      + (IF insert_ok THEN 0 ELSE 1)
                /\ nfaults' <= MaxFaults
                /\ files' = o.files
                /\ result' = [k \in DOMAIN o \ {"files"} |-> o[k]]
                /\ sink' = Logged(sink, call.host, call.username, dom, o.result,
                                  insert_ok)
    /\ call' = IF insert_ok THEN call
               ELSE [call EXCEPT !.dropped = Append(@, <<call.username, Head(domains)>>)]
    /\ domains' = Tail(domains)
    /\ pc' = IF domains' = <<>> THEN "accounts" ELSE "domains"
    /\ UNCHANGED <<today, dirs, accounts, exit, ncalls, allocated>>

\* check_accounts returns: every account has been processed.
Return ==
    /\ pc = "accounts"
    /\ accounts = <<>>
    /\ pc' = "idle"
    /\ exit' = "returned"
    /\ UNCHANGED <<today, dirs, files, call, accounts, domains, result, sink, ncalls,
                   nfaults, allocated>>

AllPages == UNION { Pages(a.domain) : a \in UNION { {ListAccounts(h)[i] : i \in DOMAIN ListAccounts(h)} : h \in Hosts } }
               \cup Pages("b-a.com")

Init ==
    /\ today = "20250101"
    /\ dirs = {output_dir}
    /\ files = EmptyDict
    /\ allocated = None
    /\ EngineIdle

Next ==
    \/ \E host \in Hosts, date_arg \in DateArgs, accounts_ok \in BOOLEAN :
          CheckAccounts(host, date_arg, accounts_ok)
    \/ \E addons_ok \in BOOLEAN, n \in 1..2 : \E outcome \in [1..n -> AllowOutcomes] :
          ProcessAccount(addons_ok, outcome)
    \/ \E page \in AllPages, fault \in Faults, insert_ok \in BOOLEAN :
          FetchDomain(page, fault, insert_ok)
    \/ Return

Spec == Init /\ [][Next]_vars

(***************************************************************************)
(* Properties of the engine.                                               *)
(***************************************************************************)
\* The last _fetch_page call went past the skip test.
Fetched == result.called /\ result.captured

\* It returned from the end of its try block: no exception reached the outer
\* handler.
ReturnedNormally == Fetched /\ "location" \in DOMAIN result.result

\* It ran with no exception raised at any step.
FinishedNormally == ReturnedNormally /\ result.fault = "none"

\* It got as far as the lineage searches.
Searched ==
    Fetched /\ ~(result.fault \in CaptureFaults \cup {"find_element", "write_txt"})

CurrentHtml == HtmlFile(result.user, result.domain, result.directory)
CurrentPng == PngFile(result.user, result.domain, result.directory)
CurrentDiff == Join(result.directory, result.user \o "-" \o result.domain \o "-diff.png")

\* The directory of the current run, with the separator that ends it.
CurrentRunPrefix == Join(output_dir, call.date) \o "/"

Distance == CHOOSE d \in result.hash_distance : TRUE

\* C2: when processing a domain finishes normally, an artifact that had a
\* predecessor and was classified identical to it is gone (for the image,
\* its -diff.png too), and one classified different is there (for the image,
\* with its -diff.png).
C2_RetentionPolicy ==
    FinishedNormally =>
        /\ result.previous_txt_file # None =>
             /\ Get(result.result, "txt_status") \in {"deleted_duplicate", "different"}
             /\ Get(result.result, "txt_status") = "deleted_duplicate"
                   => CurrentHtml \notin DOMAIN files
             /\ Get(result.result, "txt_status") = "different"
                   => CurrentHtml \in DOMAIN files
        /\ result.previous_screenshot # None =>
             /\ result.hash_distance # {}
             /\ Distance <= 5 =>
                   CurrentPng \notin DOMAIN files /\ CurrentDiff \notin DOMAIN files
             /\ Distance > 5 =>
                   CurrentPng \in DOMAIN files /\ CurrentDiff \in DOMAIN files

\* A domain finished normally with its text deleted as a duplicate and its
\* image, 6 bits from its predecessor, kept with a diff.
C2_Witness ==
    /\ FinishedNormally
    /\ result.previous_txt_file # None
    /\ Get(result.result, "txt_status") = "deleted_duplicate"
    /\ result.hash_distance = {6}
    /\ CurrentDiff \in DOMAIN files

\* C3: neither lineage search returns an artifact located under the current
\* run's directory output_dir/<RunID>/, also not one stored there under
\* another host's directory.
C3_PredecessorOutsideCurrentRun ==
    Searched =>
        /\ result.previous_txt_file # None
              => ~StartsWith(result.previous_txt_file, CurrentRunPrefix)
        /\ result.previous_screenshot # None
              => ~StartsWith(result.previous_screenshot, CurrentRunPrefix)

\* The run directory and the file name of an artifact path.
RunOf(path) == Split(path)[Len(Split(output_dir)) + 1]
HostOf(path) == Split(path)[Len(Split(output_dir)) + 2]
NameOf(path) == Split(path)[Len(Split(output_dir)) + 3]

\* The artifacts of the last fetched domain that lie outside the current run:
\* what the glob of each search matches there.
TxtOutsideRun ==
    { p \in DOMAIN files :
        /\ Len(Split(p)) = Len(Split(output_dir)) + 3
        /\ NameOf(p) = result.user \o "-" \o result.domain \o ".txt"
        /\ ~StartsWith(p, CurrentRunPrefix) }

PngOutsideRun ==
    { p \in DOMAIN files :
        /\ Len(Split(p)) = Len(Split(output_dir)) + 3
        /\ EndsWith(NameOf(p), "-" \o result.domain \o ".png")
        /\ ~StartsWith(p, CurrentRunPrefix) }

\* found is None exactly when there is no candidate, and lies otherwise in
\* the candidates' run directory with the greatest name.
NoneOrGreatestRun(found, candidates) ==
    /\ found = None <=> candidates = {}
    /\ found # None =>
         /\ found \in candidates
         /\ \A c \in candidates : ~StrLess(RunOf(found), RunOf(c))

\* C4: a lineage search returns None exactly when no artifact of that kind for
\* the domain exists outside the current run, and otherwise an artifact of the
\* run directory with the greatest RunID, by string value, among those.
C4_MostRecentOrNone ==
    Searched =>
        /\ NoneOrGreatestRun(result.previous_txt_file, TxtOutsideRun)
        /\ NoneOrGreatestRun(result.previous_screenshot, PngOutsideRun)

\* C5: the predecessor used for a (host, user, domain, kind) is an artifact of
\* that host, user and domain.
C5_PredecessorOfSameKey ==
    Searched =>
        /\ result.previous_txt_file # None =>
             /\ HostOf(result.previous_txt_file) = call.host
             /\ NameOf(result.previous_txt_file)
                   = result.user \o "-" \o result.domain \o ".txt"
        /\ result.previous_screenshot # None =>
             /\ HostOf(result.previous_screenshot) = call.host
             /\ NameOf(result.previous_screenshot)
                   = result.user \o "-" \o result.domain \o ".png"

\* C6: processing a domain whose text and image artifacts of the current run
\* both exist returns status 'skipped', captures nothing and leaves every
\* file and directory as it was, each time it is done.
C6_SkipLeavesFilesAlone ==
    [][ ( /\ pc = "domains"
          /\ HtmlFile(call.username, Head(domains), call.directory) \in DOMAIN files
          /\ PngFile(call.username, Head(domains), call.directory) \in DOMAIN files )
        => /\ result'.result = ("code" :> "skipped")
           /\ ~result'.captured
           /\ result'.domain = Head(domains)
           /\ files' = files
           /\ dirs' = dirs ]_vars

\* A domain was skipped in a run directory that holds both of its artifacts.
C6_Witness ==
    /\ result.called
    /\ result.result = ("code" :> "skipped")
    /\ CurrentHtml \in DOMAIN files
    /\ CurrentPng \in DOMAIN files

\* C7: an exception raised at any step of handling one domain is caught: the
\* domain gets a result whose status is the error description, and every
\* remaining domain and account of the run is still processed.
C7_DomainFailuresAreContained ==
    /\ (pc = "idle" /\ exit \in {"returned", "exception"})
          => accounts = <<>> /\ domains = <<>>
    /\ (Fetched /\ result.fault # "none")
          => result.result = ("code" :> ErrorText(result.fault))

\* The rows the last check_accounts call inserted.
RowsOfCall == SelectSeq(sink, LAMBDA row : row.timestamp = ncalls)

\* How many times x occurs in the sequence seq.
Count(seq, x) == Cardinality({ i \in DOMAIN seq : seq[i] = x })

RowKeys == [i \in DOMAIN RowsOfCall |-> <<RowsOfCall[i].user, RowsOfCall[i].domain>>]

\* C8, as claimed: when a run completes, the sink holds exactly one record for
\* each (host, user, domain) enumerated for a non-suspended account.
C8_OneRowPerEnumeratedDomain ==
    (pc = "idle" /\ exit = "returned") =>
        /\ \A i \in DOMAIN RowsOfCall : RowsOfCall[i].host = call.host
        /\ \A i \in DOMAIN call.enumerated : Count(RowKeys, call.enumerated[i]) = 1
        /\ \A i \in DOMAIN RowKeys : Count(call.enumerated, RowKeys[i]) >= 1

\* C8, amended: when a run completes, the sink holds one record for each
\* enumerated domain of a non-suspended account that passed the allow-list
\* check, in the order they were fetched, except those whose insert failed.
C8_OneRowPerAllowedDomain ==
    (pc = "idle" /\ exit = "returned") =>
        /\ \A i \in DOMAIN RowsOfCall : RowsOfCall[i].host = call.host
        /\ Len(RowKeys) + Len(call.dropped) = Len(call.allowed)
        /\ \A i \in DOMAIN call.allowed :
              Count(RowKeys, call.allowed[i]) + Count(call.dropped, call.allowed[i])
                 = Count(call.allowed, call.allowed[i])

\* A run completed in which one enumerated domain was rejected by the
\* allow-list and another was fetched and logged.
C8_Witness ==
    /\ pc = "idle"
    /\ exit = "returned"
    /\ Len(call.enumerated) = 2
    /\ Len(call.allowed) = 1
    /\ Len(RowsOfCall) = 1

\* C9: when the new image is classified identical to its predecessor (hash
\* distance at most 5), the image and its diff file are deleted, the result's
\* image status is deleted_duplicate and its image predecessor run id is set.
C9_IdenticalImageIsDeletedDuplicate ==
    (ReturnedNormally /\ result.hash_distance # {} /\ Distance <= 5) =>
        /\ CurrentPng \notin DOMAIN files
        /\ CurrentDiff \notin DOMAIN files
        /\ Get(result.result, "screenshot_status") = "deleted_duplicate"
        /\ Get(result.result, "screenshot_previous_run") # None

\* No artifact of either kind exists for the last fetched (user, domain)
\* outside the directory it was fetched into.
NoPriorArtifact ==
    \A p \in DOMAIN files :
        (/\ Len(Split(p)) = Len(Split(output_dir)) + 3
         /\ NameOf(p) \in { result.user \o "-" \o result.domain \o ".txt",
                            result.user \o "-" \o result.domain \o ".png" })
        => StartsWith(p, result.directory \o "/")

\* C10: when a domain is captured and no prior artifact of either kind exists
\* for it, the result carries no text status, no image status, no score and
\* no predecessor run id, and both artifacts of the current run exist.
C10_FirstObservation ==
    (ReturnedNormally /\ NoPriorArtifact) =>
        /\ DOMAIN result.result = {"location", "code", "digest"}
        /\ CurrentHtml \in DOMAIN files
        /\ CurrentPng \in DOMAIN files

\* The last _fetch_page call found a text predecessor and returned a result.
TextCompared == ReturnedNormally /\ result.previous_txt_file # None

\* The text artifact is gone and reported as a duplicate; it is stored with
\* the content just captured and reported as different; it is stored and
\* nothing is reported about it.
TextDeleted ==
    /\ CurrentHtml \notin DOMAIN files
    /\ Get(result.result, "txt_status") = "deleted_duplicate"
TextRetained ==
    /\ CurrentHtml \in DOMAIN files
    /\ files[CurrentHtml] = result.current_content
    /\ Get(result.result, "txt_status") = "different"
TextUnreported ==
    /\ CurrentHtml \in DOMAIN files
    /\ files[CurrentHtml] = result.current_content
    /\ "txt_status" \notin DOMAIN result.result
    /\ "txt_previous_run" \notin DOMAIN result.result

\* C11: when a text predecessor exists and is readable, the new
\* text artifact is deleted with status deleted_duplicate exactly when its
\* content equals the predecessor's, and is otherwise retained with status
\* different; there is no third outcome.
C11_TextEqualityDecides ==
    (TextCompared /\ result.fault # "read_txt") =>
        IF result.current_content = files[result.previous_txt_file]
        THEN TextDeleted ELSE TextRetained


(***************************************************************************)
(* The run directories of one day: calls of check_accounts with no date,   *)
(* each allocating its RunID and creating its directory before the next;   *)
(* between two calls the operator may remove a run directory.  The calls   *)
(* end at the account list (the request fails), which comes after the      *)
(* allocation and the mkdir and does not touch the output root.            *)
(***************************************************************************)
OlderRuns == {"20241231", "2024123101", "2024123199"}

\* The run directories there can be.
RunNames == OlderRuns \cup { "20250101" \o Fmt02d(n) : n \in 1..MaxRuns }

InitRuns ==
    /\ today = "20250101"
    /\ \E D \in SUBSET OlderRuns :
          dirs = {output_dir} \cup { Join(output_dir, n) : n \in D }
    /\ files = EmptyDict
    /\ allocated = None
    /\ EngineIdle

\* rm -r of a run directory of the output root.
RemoveRun(run) ==
    /\ pc = "idle"
    /\ Join(output_dir, run) \in dirs
    /\ dirs' = { d \in dirs : d # Join(output_dir, run)
                              /\ ~StartsWith(d, Join(output_dir, run) \o "/") }
    /\ files' = [ p \in { q \in DOMAIN files :
                            ~StartsWith(q, Join(output_dir, run) \o "/") } |-> files[p] ]
    /\ UNCHANGED <<today, pc, call, accounts, domains, result, sink, exit, ncalls,
                   nfaults, allocated>>

NextRuns ==
    \/ \E host \in Hosts : CheckAccounts(host, None, FALSE)
    \/ \E run \in RunNames : RemoveRun(run)

SpecRuns == InitRuns /\ [][NextRuns]_vars

\* C12: within one date, over calls that each create their run directory
\* before the next allocates, the allocated serials are strictly increasing
\* and the first is 01, also when run directories are removed in between.
C12_SerialsStrictlyIncrease ==
    [][ (ncalls' = ncalls + 1 /\ allocated' # RuntimeError) =>
           IF allocated = None THEN allocated' = today \o "01"
           ELSE StrLess(allocated, allocated') ]_vars
\* C13: an engine that checks several hosts allocates exactly one RunID, and
\* every artifact it writes, for every host, goes under that run directory:
\* once a RunID is allocated no other is, and every new file lies under it.
C13_OneRunPerInvocation ==
    [][ allocated # None =>
           /\ allocated' = allocated
           /\ \A p \in DOMAIN files' \ DOMAIN files :
                  StartsWith(p, Join(output_dir, allocated) \o "/") ]_vars
\* The step processes an account whose addon-domain request failed: the
\* inventory has addon domains for it, and only its main domain was
\* enumerated.
AddonRequestFailed ==
    /\ pc = "accounts"
    /\ accounts # <<>>
    /\ ~Head(accounts).suspended
    /\ ListAddonDomains(call.host, Head(accounts).user) # <<>>
    /\ call'.enumerated = call.enumerated
                             \o <<(<<Head(accounts).user, Head(accounts).domain>>)>>

\* The step is a call whose account-list request failed.
AccountRequestFailed == ncalls' = ncalls + 1 /\ exit' = "sys.exit(1)"

\* check_accounts is over and did not return normally.
Aborted(p, e) == p = "idle" /\ e \in {"sys.exit(1)", "exception"}

\* C14: a failure of list_accounts or of list_addon_domains aborts the whole
\* invocation: no further domain of any account is captured or logged.
C14_InventoryFailureAborts ==
    [][ (AccountRequestFailed \/ AddonRequestFailed)
           => Aborted(pc', exit') /\ sink' = sink /\ files' = files ]_vars
(***************************************************************************)
(* Re-invocation with the same RunID: the output root holds an earlier run *)
(* of host h1, and check_accounts is called for h1, more than once, with   *)
(* the date of one later run.  A capture may fail before anything is       *)
(* written (the browser raises), which leaves the domain with an error     *)
(* result and the run to be repeated.                                      *)
(***************************************************************************)
EarlierRun == "2025010101"

RerunDate == "2025010102"

RerunHost == "h1"

RerunFaults == {"none", "capture"}

\* What the earlier run left for u/a.com: its text and its thumbnail.
EarlierArtifacts ==
    LET directory == Join(Join(output_dir, EarlierRun), RerunHost)
        page == [location |-> "https://a.com", code |-> "200", text |-> "t0",
                 hash |-> "011111"]
    IN  (HtmlFile("u", "a.com", directory) :> TextOf(page))
        @@ (PngFile("u", "a.com", directory)
               :> [width |-> THUMBNAIL_WIDTH, hash |-> page.hash])

InitRerun ==
    /\ today = "20250101"
    /\ dirs = Mkdir({output_dir}, EarlierRun, RerunHost)
    /\ files = EarlierArtifacts
    /\ allocated = None
    /\ EngineIdle

NextRerun ==
    \/ \E accounts_ok \in BOOLEAN : CheckAccounts(RerunHost, RerunDate, accounts_ok)
    \/ \E addons_ok \in BOOLEAN, n \in 1..2 : \E outcome \in [1..n -> AllowOutcomes] :
          ProcessAccount(addons_ok, outcome)
    \/ \E page \in AllPages, fault \in RerunFaults : FetchDomain(page, fault, TRUE)
    \/ Return

SpecRerun == InitRerun /\ [][NextRerun]_vars

\* C15: once an artifact file has been written and retained, no later
\* operation rewrites its content or removes it: a file that is there before
\* a step is there after it, with the same content.
C15_ArtifactsAreImmutable ==
    [][ \A p \in DOMAIN files : p \in DOMAIN files' /\ files'[p] = files[p] ]_vars
\* The rows of earlier calls for the domain dom of the current account: the
\* results it got in earlier passes.
EarlierRows(dom) ==
    SelectSeq(sink, LAMBDA row : /\ row.timestamp < ncalls
                                 /\ row.host = call.host
                                 /\ row.user = call.username
                                 /\ row.domain = dom)

\* An earlier pass finalized dom: it got a result that is not an error.
FinalizedBefore(dom) ==
    \E i \in DOMAIN EarlierRows(dom) :
        EarlierRows(dom)[i].location # None \/ EarlierRows(dom)[i].code = "skipped"

\* An earlier pass failed in part: some domain got an error result.
FailedInPart ==
    \E i \in DOMAIN sink :
        /\ sink[i].timestamp < ncalls
        /\ sink[i].location = None
        /\ sink[i].code # "skipped"

\* C16: when the engine is re-invoked with the same RunID after a partial
\* failure, every domain already finalized in that run is skipped without a
\* new capture, whatever the retention policy did with its artifacts.  (In
\* the behaviours of SpecRerun every call is for the same RunID.)
C16_FinalizedDomainsAreSkipped ==
    [][ (pc = "domains" /\ FailedInPart /\ FinalizedBefore(Head(domains)))
           => /\ ~result'.captured
              /\ result'.result = ("code" :> "skipped") ]_vars
(***************************************************************************)
(* The lineage searches on their own: an output root whose run directories *)
(* are legacy bare dates and date+serial identifiers, each holding the     *)
(* text or the image of u/a.com or both, then one search of each kind from *)
(* the directory of a new run.                                             *)
(***************************************************************************)
LegacyRuns == {"20241231", "20250101", "20250102"}

SerialRuns == {"2024123101", "2025010101", "2025010102"}

SearchDirectory == Join(Join(output_dir, "2025010103"), "h1")

InitOrder ==
    /\ today = "20250101"
    /\ \E T \in SUBSET (LegacyRuns \cup SerialRuns), P \in SUBSET (LegacyRuns \cup SerialRuns) :
         /\ dirs = {output_dir} \cup UNION { {Join(output_dir, r), Join(Join(output_dir, r), "h1")}
                                             : r \in T \cup P }
         /\ files =
              [ p \in { HtmlFile("u", "a.com", Join(Join(output_dir, r), "h1")) : r \in T }
                      \cup { PngFile("u", "a.com", Join(Join(output_dir, r), "h1")) : r \in P }
                |-> IF EndsWith(p, ".txt") THEN "x"
                    ELSE [width |-> THUMBNAIL_WIDTH, hash |-> "000000"] ]
    /\ allocated = None
    /\ EngineIdle

\* _find_previous_txt_file and find_previous_screenshot, as _fetch_page calls
\* them for (user, domain) in current_directory.
FindPrevious(user, domain, current_directory) ==
    /\ ~result.called
    /\ \E pt \in Returned(FindPreviousTxtFile(files, user, domain, current_directory)),
          pp \in Returned(FindPreviousScreenshot(files, domain, current_directory)) :
          result' = [NoFetch EXCEPT !.called = TRUE, !.user = user, !.domain = domain,
                                    !.directory = current_directory,
                                    !.previous_txt_file = pt,
                                    !.previous_screenshot = pp]
    /\ UNCHANGED <<today, dirs, files, pc, call, accounts, domains, sink, exit, ncalls,
                   nfaults, allocated>>

NextOrder == FindPrevious("u", "a.com", SearchDirectory)

SpecOrder == InitOrder /\ [][NextOrder]_vars

\* The run directories that hold a candidate of each kind, and the run of the
\* one a search returned.
TxtRuns == { RunOf(p) : p \in { q \in DOMAIN files : EndsWith(q, ".txt") } }
PngRuns == { RunOf(p) : p \in { q \in DOMAIN files : EndsWith(q, ".png") } }
ChosenRun(found) == IF found = None THEN None ELSE RunOf(found)

\* No 8-character run is chosen while a 10-character one is a candidate.
SerialBeforeLegacy(chosen, runs) ==
    \A l \in runs, s \in runs : (Len(l) = 8 /\ Len(s) = 10) => chosen # l

\* An 8-character run l is chosen in the presence of a 10-character run s
\* only if its date is later than the date of s, and s in the presence of l
\* only if the date of l is not later than its own.
LaterDate(l, s) == StrLess(SliceTo(s, 8), l)
SerialBeforeLegacyUnlessLater(chosen, runs) ==
    \A l \in runs, s \in runs :
        (Len(l) = 8 /\ Len(s) = 10) =>
            /\ chosen = l => LaterDate(l, s)
            /\ chosen = s => ~LaterDate(l, s)

\* C17, as claimed: in the ordering used to pick a predecessor, every
\* 8-character bare-date run directory ranks as older than every 10-character
\* date+serial one, whatever the two dates are.
C17_LegacyAlwaysOlder ==
    result.called =>
        /\ SerialBeforeLegacy(ChosenRun(result.previous_txt_file), TxtRuns)
        /\ SerialBeforeLegacy(ChosenRun(result.previous_screenshot), PngRuns)

\* C17, amended: an 8-character bare-date run directory ranks as older than
\* a 10-character date+serial one exactly when its date is not later than
\* the other's date; a bare date of a later day ranks as newer.
C17_LegacyOlderUnlessLaterDate ==
    result.called =>
        /\ SerialBeforeLegacyUnlessLater(ChosenRun(result.previous_txt_file), TxtRuns)
        /\ SerialBeforeLegacyUnlessLater(ChosenRun(result.previous_screenshot), PngRuns)

\* A search chose the text of the bare-date run 20250102 although a
\* date+serial run of the day before holds one too.
C17_Witness ==
    /\ result.called
    /\ "2025010101" \in TxtRuns
    /\ ChosenRun(result.previous_txt_file) = "20250102"
\* C18: if the deletion of a duplicate artifact fails, text or image, the
\* failure is only logged: the domain ends with its normal result (status
\* code, location, digest), not with an error result.
C18_DeletionFailureIsNotEscalated ==
    (Fetched /\ result.fault \in {"remove_txt", "remove_png"}) =>
        /\ {"location", "code", "digest"} \subseteq DOMAIN result.result
        /\ result.result.code = "200"
\* The text status the last fetch gets when nothing fails in the text
\* comparison: none without a predecessor, else what the comparison of the
\* two files as read gives.
ExpectedTxtStatus ==
    IF result.previous_txt_file = None THEN None
    ELSE IF ReadText(result.current_content) = ReadText(files[result.previous_txt_file])
    THEN "deleted_duplicate" ELSE "different"

ImageKeys == {"screenshot_status", "screenshot_hash_distance", "screenshot_previous_run"}

\* C19: when the resize, the comparison of the images or the writing of the
\* diff image fails, the result still carries status code, location and
\* digest, the image sub-result (status, score, predecessor run) is absent,
\* and the text sub-result is what it is without the failure.
C19_ImageFailureOmitsImageResult ==
    (Fetched /\ result.fault \in {"resize", "compare", "write_diff"}) =>
        /\ {"location", "code", "digest"} \subseteq DOMAIN result.result
        /\ DOMAIN result.result \cap ImageKeys = {}
        /\ Get(result.result, "txt_status") = ExpectedTxtStatus
\* The image artifacts stored under the output root (the diff images are not
\* artifacts of a key).  The image a capture leaves behind when the domain
\* ends with an error result is not looked at below.
StoredImages ==
    { p \in DOMAIN files : EndsWith(p, ".png") /\ ~EndsWith(p, "-diff.png") }

\* The width the image of the last fetch had when it was compared: the
\* width it was captured with when the resize failed.
ComparedWidth == IF result.fault = "resize" THEN CAPTURE_WIDTH ELSE THUMBNAIL_WIDTH

\* C20: every image artifact that is compared against a predecessor, and
\* every image artifact that remains stored after a domain is finalized, has
\* the display width of 500 pixels.
C20_ImagesHaveDisplayWidth ==
    ReturnedNormally =>
        /\ CurrentPng \in StoredImages => files[CurrentPng].width = 500
        /\ result.hash_distance # {} => ComparedWidth = 500
\* C21: for a domain whose origin is unreachable at the transport layer no
\* image artifact is written in the current run and the result records the
\* status 521, which is neither a normal status code nor an exception text.
C21_UnreachableOriginIs521 ==
    Fetched /\ result.fault = "unreachable" =>
        /\ CurrentPng \notin DOMAIN files
        /\ Get(result.result, "code") = "521"

\* C22: a domain whose redirect chain exceeds the hop limit ends with a
\* result whose status is the 'too many redirects' value, no exception
\* leaves _fetch_page, and the run goes on with the next domain.
C22_TooManyRedirectsIsRecorded ==
    Fetched /\ result.fault = "too_many_redirects" =>
        /\ Get(result.result, "code") = "too_many_redirects"
        /\ exit # "exception"
        /\ pc \in {"domains", "accounts"}

\* ---------------------------------------------------------------------
\* compare_screenshots on its own: two images on disk, compared in either
\* order and with themselves, each comparison classified as _fetch_page
\* classifies it.
MaxCompares == 2

\* Perceptual hashes at every distance from 0 to 6 of one another.
CompareHashes ==
    {"000000", "000001", "000011", "000111", "001111", "011111", "111111", "111000"}

CompareImages == {Join(output_dir, "a.png"), Join(output_dir, "b.png")}

InitCompare ==
    /\ today = "20250101"
    /\ dirs = {output_dir}
    /\ \E ha \in CompareHashes, hb \in CompareHashes :
         files = [p \in CompareImages |->
                    [width |-> THUMBNAIL_WIDTH,
                     hash |-> IF p = Join(output_dir, "a.png") THEN ha ELSE hb]]
    /\ allocated = None
    /\ EngineIdle

\* compare_screenshots(img1_path, img2_path, diff_file) and the threshold
\* test of _fetch_page on the distance it returns.
Compare(img1_path, img2_path) ==
    /\ Len(sink) < MaxCompares
    /\ LET c == CompareScreenshots(files, img1_path, img2_path, DiffFile(img1_path), "none")
           d == CHOOSE x \in c.distance : TRUE
       IN  /\ files' = c.fs
           /\ sink' = Append(sink, [img1 |-> img1_path, img2 |-> img2_path,
                                    hash1 |-> files[img1_path].hash,
                                    hash2 |-> files[img2_path].hash,
                                    hash_distance |-> d,
                                    screenshot_status |->
                                        IF WithinThreshold(d) THEN IdenticalScreenshotStatus
                                        ELSE "different"])
    /\ UNCHANGED <<today, dirs, pc, call, accounts, domains, result, exit, ncalls,
                   nfaults, allocated>>

NextCompare == \E img1_path \in CompareImages, img2_path \in CompareImages :
                   Compare(img1_path, img2_path)

SpecCompare == InitCompare /\ [][NextCompare]_vars

Invocations == {"i1", "i2"}

InitConcurrent ==
    /\ today = "20250101"
    /\ \E D \in SubsetsUpTo({"2024123101", "2025010101", "2025010102", "2025010103",
                            "20250101"}, MaxEntries) :
         dirs = {output_dir} \cup { Join(output_dir, n) : n \in D }
    /\ files = [p \in {} |-> "x"]
    /\ pc = [i \in Invocations |-> "scan"]
    /\ allocated = [i \in Invocations |-> None]
    /\ call \in [Invocations -> { [host |-> h] : h \in Hosts }]
    /\ result = [i \in Invocations |-> NoFetch]
    /\ accounts = <<>>
    /\ domains = <<>>
    /\ sink = <<>>
    /\ exit = None
    /\ ncalls = 0
    /\ nfaults = 0

\* date = self._get_next_date_serial()
Scan(i) ==
    /\ pc[i] = "scan"
    /\ allocated' = [allocated EXCEPT ![i] = GetNextDateSerial]
    /\ pc' = [pc EXCEPT ![i] = "mkdir"]
    /\ sink' = Append(sink, [invocation |-> i, step |-> "scan"])
    /\ UNCHANGED <<today, dirs, files, call, accounts, domains, result, exit, ncalls,
                   nfaults>>

\* Path(directory).mkdir(parents=True, exist_ok=True): an existing directory
\* is no error.
MakeDirectory(i) ==
    /\ pc[i] = "mkdir"
    /\ dirs' = Mkdir(dirs, allocated[i], call[i].host)
    /\ pc' = [pc EXCEPT ![i] = "fetch"]
    /\ sink' = Append(sink, [invocation |-> i, step |-> "mkdir"])
    /\ UNCHANGED <<today, files, call, accounts, domains, result, exit, ncalls, nfaults,
                   allocated>>

\* _fetch_page for the first domain of the host's first account.
FetchFirst(i) ==
    /\ pc[i] = "fetch"
    /\ LET a == ListAccounts(call[i].host)[1]
           directory == Join(Join(output_dir, allocated[i]), call[i].host)
       IN  \E page \in Pages(a.domain) :
             \E o \in FetchPage(files, a.user, a.domain, directory, page, "none") :
                /\ files' = o.files
                /\ result' = [result EXCEPT ![i] = [k \in DOMAIN o \ {"files"} |-> o[k]]]
    /\ pc' = [pc EXCEPT ![i] = "done"]
    /\ sink' = Append(sink, [invocation |-> i, step |-> "fetch"])
    /\ UNCHANGED <<today, dirs, call, accounts, domains, exit, ncalls, nfaults, allocated>>

NextConcurrent ==
    \E i \in Invocations : Scan(i) \/ MakeDirectory(i) \/ FetchFirst(i)

SpecConcurrent == InitConcurrent /\ [][NextConcurrent]_vars

\* Both invocations scanned the output root before either created its run
\* directory.
BothScannedFirst ==
    /\ \A i \in Invocations : pc[i] # "scan"
    /\ \A k \in 1..Len(sink) :
         sink[k].step = "scan" => \A m \in 1..k : sink[m].step # "mkdir"

\* C24: if two invocations on the same output root both scan it before
\* either creates its run directory, both get the same RunID, both write
\* their artifacts into that one run directory, and neither notices: the
\* mkdir of the second succeeds on the directory of the first, no step fails
\* and each fetch ends with a normal result, or with 'skipped' where the
\* other invocation has already written the artifacts of the same host.
C24_ConcurrentAllocationCollides ==
    BothScannedFirst =>
        /\ allocated["i1"] = allocated["i2"]
        /\ allocated["i1"] # RuntimeError
        /\ exit = None
        /\ \A i \in Invocations :
             pc[i] = "done" =>
                /\ result[i].directory = Join(Join(output_dir, allocated["i1"]), call[i].host)
                /\ result[i].directory \in dirs
                /\ \/ result[i].captured /\ Get(result[i].result, "code") = "200"
                   \/ /\ Get(result[i].result, "code") = "skipped"
                      /\ \E j \in Invocations \ {i} :
                            result[j].captured /\ result[j].directory = result[i].directory

\* Both scanned first, on different hosts, and both are done: both captured
\* into the run directory both were given, which holds the texts of both.
C24_Witness ==
    /\ BothScannedFirst
    /\ \A i \in Invocations : pc[i] = "done"
    /\ call["i1"].host # call["i2"].host
    /\ \A i \in Invocations : result[i].captured
    /\ allocated["i1"] = "2025010102" /\ allocated["i2"] = "2025010102"
    /\ { RunOf(p) : p \in { q \in DOMAIN files : EndsWith(q, ".txt") } } = {"2025010102"}
    /\ { HostOf(p) : p \in { q \in DOMAIN files : EndsWith(q, ".txt") } } = Hosts

\* ---------------------------------------------------------------------
\* WebFetcher.fetch_url on its own: a web of a few URLs, each answering
\* with a redirect to one of them, a redirect status without a location, a
\* page, or a failure of the request.
MaxLimit == 3

Urls == {"http://u0", "http://u1", "http://u2", "http://u3"}

\* What requests.get(url, allow_redirects=False) can do for one URL.
Answers ==
    { [kind |-> "response", status_code |-> "301", location |-> u] : u \in Urls }
    \cup { [kind |-> "response", status_code |-> "302", location |-> None],
           [kind |-> "response", status_code |-> "200", location |-> None],
           [kind |-> "socket.error", status_code |-> None, location |-> None],
           [kind |-> "Exception", status_code |-> None, location |-> None] }

\* The response is a redirect that fetch_url follows.
Redirects(answer) ==
    /\ answer.kind = "response"
    /\ answer.status_code \in {"301", "302", "303", "307", "308"}
    /\ answer.location # None

\* fetch_url(url, limit): the pair it returns and the number of requests it
\* made.  The marker 0 is the response of kind "0".
RECURSIVE FetchUrl(_, _, _)
FetchUrl(web, url, limit) ==
    IF limit = 0
    THEN [url |-> url, response |-> [kind |-> "0", status_code |-> None], requests |-> 0]
    ELSE LET answer == web[url]
         IN  IF answer.kind = "socket.error"
             THEN [url |-> url, response |-> [kind |-> "MockResponse", status_code |-> "521"],
                   requests |-> 1]
             ELSE IF answer.kind = "Exception"
             THEN [url |-> url,
                   response |-> [kind |-> "MockResponse", status_code |-> "str(e)"],
                   requests |-> 1]
             ELSE IF Redirects(answer)
             THEN LET r == FetchUrl(web, answer.location, limit - 1)
                  IN  [r EXCEPT !.requests = r.requests + 1]
             ELSE [url |-> url,
                   response |-> [kind |-> "response", status_code |-> answer.status_code],
                   requests |-> 1]

InitFetch ==
    /\ today = "20250101"
    /\ dirs = {output_dir}
    /\ files = [p \in {} |-> "x"]
    /\ pc = "idle"
    /\ \E web \in [Urls -> Answers], limit \in 0..MaxLimit :
         call = [web |-> web, url |-> "http://u0", limit |-> limit]
    /\ result = NoFetch
    /\ accounts = <<>>
    /\ domains = <<>>
    /\ sink = <<>>
    /\ exit = None
    /\ ncalls = 0
    /\ nfaults = 0
    /\ allocated = None

\* One call fetch_url(url, limit).
FetchUrlCall ==
    /\ pc = "idle"
    /\ pc' = "returned"
    /\ result' = FetchUrl(call.web, call.url, call.limit)
    /\ UNCHANGED <<today, dirs, files, call, accounts, domains, sink, exit, ncalls, nfaults,
                   allocated>>

SpecFetch == InitFetch /\ [][FetchUrlCall]_vars

\* The number of redirects from url to the first answer that is not one,
\* and the URL of that answer; fuel bounds the walk, and hops is -1 when the
\* redirects do not end within it.
RECURSIVE Chain(_, _, _)
Chain(web, url, fuel) ==
    IF ~Redirects(web[url]) THEN [hops |-> 0, url |-> url]
    ELSE IF fuel = 0 THEN [hops |-> -1, url |-> url]
    ELSE LET c == Chain(web, web[url].location, fuel - 1)
         IN  [c EXCEPT !.hops = IF c.hops = -1 THEN -1 ELSE c.hops + 1]

\* C25: fetch_url(url, limit) makes at most limit requests whatever the
\* redirects are, cycles included; a chain of at most limit redirects that
\* ends in an answer which is no redirect returns that answer, from the URL
\* that gave it, and only a longer chain returns the marker (url, 0).
C25_FollowsUpToLimitRedirects ==
    pc = "returned" =>
        LET c == Chain(call.web, call.url, MaxLimit + 1)
        IN  /\ result.requests <= call.limit
            /\ (c.hops # -1 /\ c.hops <= call.limit) =>
                  /\ result.url = c.url
                  /\ result.response.kind # "0"
            /\ (c.hops = -1 \/ c.hops > call.limit) => result.response.kind = "0"

\* Two retained artifacts of one (user, domain) and kind, b in a later run
\* than a with no retained one of the same name in a run between them.
AdjacentInHistory(a, b) ==
    /\ NameOf(a) = NameOf(b)
    /\ StrLess(RunOf(a), RunOf(b))
    /\ \A c \in DOMAIN files :
         NameOf(c) = NameOf(a) => ~(StrLess(RunOf(a), RunOf(c)) /\ StrLess(RunOf(c), RunOf(b)))

\* C26: after any sequence of completed runs, no two text artifacts of one
\* (user, domain) that are adjacent in RunID order have equal content, and
\* every retained image is more than the threshold away from the retained
\* image immediately before it.
C26_RetainedHistoryHasNoRepeats ==
    (pc = "idle" /\ exit = "returned") =>
        \A a \in DOMAIN files, b \in DOMAIN files :
            AdjacentInHistory(a, b) =>
                /\ EndsWith(a, ".txt") => files[a] # files[b]
                /\ (EndsWith(a, ".png") /\ ~EndsWith(a, "-diff.png")) =>
                      ~WithinThreshold(HashDistance(files[a].hash, files[b].hash))

\* ---------------------------------------------------------------------
\* Allocated runs on an output root with a history: run directories of the
\* day before and of today, with and without serial, and of the day after
\* (made with an explicit date, or while the clock was a day ahead), each
\* holding the text and the thumbnail of u/a.com on h1.
HistoryRuns == {"2024123101", "20250101", "2025010101", "2025010201", "20250102"}

InitHistory ==
    /\ today = "20250101"
    /\ \E E \in SubsetsUpTo(HistoryRuns, MaxEntries) :
         /\ dirs = {output_dir} \cup UNION { {Join(output_dir, r), Join(Join(output_dir, r), "h1")}
                                             : r \in E }
         /\ files =
              [ p \in { HtmlFile("u", "a.com", Join(Join(output_dir, r), "h1")) : r \in E }
                      \cup { PngFile("u", "a.com", Join(Join(output_dir, r), "h1")) : r \in E }
                |-> IF EndsWith(p, ".txt") THEN "https://a.com\n200\nt0\n"
                    ELSE [width |-> THUMBNAIL_WIDTH, hash |-> "000000"] ]
    /\ allocated = None
    /\ EngineIdle

NextHistory ==
    \/ \E host \in Hosts : CheckAccounts(host, None, TRUE)
    \/ \E n \in 1..2 : \E outcome \in [1..n -> {"ok"}] : ProcessAccount(TRUE, outcome)
    \/ \E page \in AllPages : FetchDomain(page, "none", TRUE)
    \/ Return

SpecHistory == InitHistory /\ [][NextHistory]_vars

\* The predecessors the last fetch selected.
SelectedPredecessors == {result.previous_txt_file, result.previous_screenshot} \ {None}

OutputRoots == {".", "output", "/srv/site-checks", "/srv/20240101", "/backup/2024010199/out"}

PredecessorRuns == {"2025010101", "20250101", "2024123102", "2025-01-01"}

InitCompared ==
    /\ today = "20250101"
    /\ \E root \in OutputRoots, run \in PredecessorRuns, host \in Hosts :
         LET previous == Join(Join(root, run), host)
             current == Join(Join(root, "2025010103"), host)
         IN  /\ call = [output_dir |-> root, run |-> run, host |-> host,
                        directory |-> current,
                        previous_txt_file |-> HtmlFile("u", "a.com", previous),
                        previous_screenshot |-> PngFile("u", "a.com", previous)]
             /\ dirs = {root, Join(root, run), previous, Join(root, "2025010103"), current}
             /\ files = (HtmlFile("u", "a.com", previous) :> "https://a.com\n200\nt0\n")
                         @@ (PngFile("u", "a.com", previous)
                               :> [width |-> THUMBNAIL_WIDTH, hash |-> "000000"])
    /\ pc = "idle"
    /\ result = NoFetch
    /\ accounts = <<>>
    /\ domains = <<>>
    /\ sink = <<>>
    /\ exit = None
    /\ ncalls = 0
    /\ nfaults = 0
    /\ allocated = None

\* _fetch_page from the written text and the resized screenshot on, with the
\* predecessors the searches returned (site_checker.py:279-380).
CompareWithPrevious(page) ==
    /\ pc = "idle"
    /\ pc' = "returned"
    /\ LET html_file == HtmlFile("u", "a.com", call.directory)
           png_file == PngFile("u", "a.com", call.directory)
           fs == Written(Written(files, html_file, TextOf(page)), png_file,
                         [width |-> THUMBNAIL_WIDTH, hash |-> page.hash])
           t == TxtStage(fs, html_file, call.previous_txt_file, "none")
           g == PngStage(t.fs, png_file, call.previous_screenshot, "none")
       IN  /\ files' = g.fs
           /\ result' = [NoFetch EXCEPT !.called = TRUE, !.captured = TRUE,
                                        !.user = "u", !.domain = "a.com",
                                        !.directory = call.directory,
                                        !.previous_txt_file = call.previous_txt_file,
                                        !.previous_screenshot = call.previous_screenshot,
                                        !.hash_distance = g.distance,
                                        !.result = ResultDict(page, t, g)]
    /\ UNCHANGED <<today, dirs, call, accounts, domains, sink, exit, ncalls, nfaults,
                   allocated>>

NextCompared == \E page \in Pages("a.com") : CompareWithPrevious(page)

SpecCompared == InitCompared /\ [][NextCompared]_vars

\* C28: in every result a text status comes with a text predecessor run id
\* and an image status with an image predecessor run id, and each recorded
\* run id is the name of the directory directly under the output root that
\* holds the artifact compared against.
C28_StatusComesWithBaselineRun ==
    pc = "returned" =>
        /\ "txt_status" \in DOMAIN result.result =>
              Get(result.result, "txt_previous_run") = call.run
        /\ "screenshot_status" \in DOMAIN result.result =>
              Get(result.result, "screenshot_previous_run") = call.run
        /\ "txt_previous_run" \in DOMAIN result.result =>
              result.result["txt_previous_run"] = call.run
        /\ "screenshot_previous_run" \in DOMAIN result.result =>
              result.result["screenshot_previous_run"] = call.run

\* ---------------------------------------------------------------------
\* The web interface: /api/changes/{date} over a database with one change
\* record and an output root with the runs of two days.  The record is the
\* row log_check_result wrote for u/a.com on h1 during the run `run`, which
\* is no column of the table; every run kept its image and a diff.
InitChanges ==
    /\ today = "20250101"
    /\ \E R \in SUBSET {"2024123101", "2024123102", "2025010101", "2025010102",
                         "2025010103"} :
         /\ R # {}
         /\ dirs = {output_dir} \cup UNION { {Join(output_dir, r), Join(Join(output_dir, r), "h1")}
                                             : r \in R }
         /\ files =
              [ p \in UNION { { PngFile("u", "a.com", Join(Join(output_dir, r), "h1")),
                                DiffFile(PngFile("u", "a.com", Join(Join(output_dir, r), "h1"))) }
                              : r \in R }
                |-> [width |-> THUMBNAIL_WIDTH, hash |-> "000000"] ]
         /\ \E run \in R :
              sink = << [timestamp |-> SliceTo(run, 4) \o "-" \o SubSeq(run, 5, 6) \o "-"
                                        \o SubSeq(run, 7, 8) \o "T10:00:00",
                         host |-> "h1", user |-> "u", domain |-> "a.com",
                         screenshot_status |-> "different",
                         screenshot_previous_run |-> None, run |-> run] >>
    /\ pc = "idle"
    /\ call = NoCall
    /\ accounts = <<>>
    /\ domains = <<>>
    /\ result = <<>>
    /\ exit = None
    /\ ncalls = 0
    /\ nfaults = 0
    /\ allocated = None

\* extract_run_from_timestamp(timestamp, output_dir): the greatest name among
\* the directories that start with the date of the timestamp.
ExtractRunFromTimestamp(timestamp) ==
    LET date_prefix == Replace(SliceTo(timestamp, 10), "-", "")
        matching_dirs == { d \in ListDir(output_dir) :
                             Join(output_dir, d) \in dirs /\ StartsWith(d, date_prefix) }
    IN  IF matching_dirs = {} THEN None
        ELSE CHOOSE d \in matching_dirs : \A e \in matching_dirs : e = d \/ StrLess(e, d)

\* get_screenshot_paths(domain, user, current_run, previous_run, host,
\* output_dir)
GetScreenshotPaths(domain, user, current_run, previous_run, host) ==
    LET current_path == PngFile(user, domain, Join(Join(output_dir, current_run), host))
        diff_path == DiffFile(current_path)
        previous_path == IF previous_run = None THEN None
                         ELSE PngFile(user, domain, Join(Join(output_dir, previous_run), host))
    IN  [current |-> IF Exists(current_path) THEN current_path ELSE None,
         diff |-> IF Exists(diff_path) THEN diff_path ELSE None,
         previous |-> IF previous_path # None /\ Exists(previous_path) THEN previous_path
                      ELSE None]

\* GET /api/changes/{date}: the rows of that date with a 'different' status,
\* each with current_run and the screenshot paths attached.
GetChanges(date) ==
    /\ pc = "idle"
    /\ pc' = "responded"
    /\ LET changes == SelectSeq(sink, LAMBDA row :
                           SliceTo(row.timestamp, 10) = date
                           /\ row.screenshot_status = "different")
       IN  result' =
             [ i \in 1..Len(changes) |->
                 LET change == changes[i]
                     current_run == ExtractRunFromTimestamp(change.timestamp)
                 IN  [timestamp |-> change.timestamp, run |-> change.run,
                      current_run |-> current_run,
                      screenshots |->
                        IF current_run # None
                        THEN GetScreenshotPaths(change.domain, change.user, current_run,
                                                change.screenshot_previous_run, change.host)
                        ELSE [current |-> None, diff |-> None, previous |-> None]] ]
    /\ UNCHANGED <<today, dirs, files, call, accounts, domains, sink, exit, ncalls, nfaults,
                   allocated>>

NextChanges == \E date \in {"2024-12-31", "2025-01-01"} : GetChanges(date)

SpecChanges == InitChanges /\ [][NextChanges]_vars

\* C29: the current_run attached to every change record returned is the
\* RunID of the run that produced the record, also when several runs took
\* place on its date, and the current and diff paths shown lie in that run.
C29_CurrentRunIsProducingRun ==
    pc = "responded" =>
        \A i \in 1..Len(result) :
            /\ result[i].current_run = result[i].run
            /\ \A k \in {"current", "diff"} :
                 result[i].screenshots[k] # None =>
                    RunOf(result[i].screenshots[k]) = result[i].run

\* ---------------------------------------------------------------------
\* The web interface: /api/screenshot and /api/textdiff.  output_path is
\* Path(output_dir).resolve(); next to it lie a directory whose name begins
\* with its name and one whose name does not.
output_path == "/srv/out"

\* (Path(output_dir) / path).resolve(): an absolute path replaces the output
\* directory, '.' and empty components go, '..' drops the component before
\* it (none at the root).  There are no symbolic links.
FullPath(path) ==
    LET RECURSIVE Walk(_, _)
        Walk(parts, stack) ==
            IF parts = <<>> THEN stack
            ELSE IF Head(parts) \in {"", "."} THEN Walk(Tail(parts), stack)
            ELSE IF Head(parts) = ".."
            THEN Walk(Tail(parts),
                      IF stack = <<>> THEN stack ELSE SubSeq(stack, 1, Len(stack) - 1))
            ELSE Walk(Tail(parts), Append(stack, Head(parts)))
        RECURSIVE Str(_)
        Str(stack) == IF stack = <<>> THEN "" ELSE "/" \o Head(stack) \o Str(Tail(stack))
        joined == IF StartsWith(path, "/") THEN path ELSE Join(output_path, path)
        resolved == Str(Walk(Split(joined), <<>>))
    IN  IF resolved = "" THEN "/" ELSE resolved

InitServe ==
    /\ today = "20250101"
    /\ dirs = {output_path}
    /\ \E F \in SUBSET {"/srv/out/2025010101/h1/u-a.com.png",
                         "/srv/out/2025010101/h1/u-a.com.txt",
                         "/srv/out-old/2025010101/h1/u-a.com.txt",
                         "/srv/other/notes.txt", "/etc/passwd"} :
         files = [p \in F |-> "x"]
    /\ pc = "idle"
    /\ call = NoCall
    /\ accounts = <<>>
    /\ domains = <<>>
    /\ result = <<>>
    /\ sink = <<>>
    /\ exit = None
    /\ ncalls = 0
    /\ nfaults = 0
    /\ allocated = None

\* GET /api/screenshot?path=...: the status of the response, the file it
\* returns, and the resolved paths asked for.
GetScreenshot(path) ==
    /\ pc = "idle"
    /\ pc' = "responded"
    /\ LET full_path == FullPath(path)
       IN  result' =
             IF ~StartsWith(full_path, output_path)
             THEN [status |-> "403", read |-> {}, requested |-> {full_path}]
             ELSE IF full_path \notin DOMAIN files
             THEN [status |-> "404", read |-> {}, requested |-> {full_path}]
             ELSE [status |-> "200", read |-> {full_path}, requested |-> {full_path}]
    /\ UNCHANGED <<today, dirs, files, call, accounts, domains, sink, exit, ncalls, nfaults,
                   allocated>>

\* GET /api/textdiff?current_path=...&previous_path=...: previous_path may
\* be left out (None).
GetTextDiff(current_path, previous_path) ==
    /\ pc = "idle"
    /\ pc' = "responded"
    /\ LET current_full_path == FullPath(current_path)
           previous_full_path == IF previous_path = None THEN None
                                 ELSE FullPath(previous_path)
           requested == {current_full_path, previous_full_path} \ {None}
           current_read == {current_full_path} \cap DOMAIN files
       IN  result' =
             IF ~StartsWith(current_full_path, output_path)
             THEN [status |-> "403", read |-> {}, requested |-> requested]
             ELSE IF previous_path = None
             THEN [status |-> "200", read |-> current_read, requested |-> requested]
             ELSE IF ~StartsWith(previous_full_path, output_path)
             THEN [status |-> "403", read |-> current_read, requested |-> requested]
             ELSE [status |-> "200",
                   read |-> current_read \cup ({previous_full_path} \cap DOMAIN files),
                   requested |-> requested]
    /\ UNCHANGED <<today, dirs, files, call, accounts, domains, sink, exit, ncalls, nfaults,
                   allocated>>

NextServe ==
    \E path \in {"2025010101/h1/u-a.com.png", "2025010101/h1/u-a.com.txt",
                  "2025010101/h1/../h1/./u-a.com.txt", "2025010102/h1/u-a.com.txt",
                  "../out-old/2025010101/h1/u-a.com.txt", "../other/notes.txt",
                  "../../etc/passwd", "/etc/passwd"} :
       \/ GetScreenshot(path)
       \/ \E previous_path \in {None, "2025010101/h1/u-a.com.txt",
                                  "../out-old/2025010101/h1/u-a.com.txt",
                                  "../other/notes.txt"} :
             GetTextDiff(path, previous_path)

SpecServe == InitServe /\ [][NextServe]_vars

\* C30: /api/screenshot and /api/textdiff never read or return a file whose
\* resolved location is outside the resolved output directory, and answer
\* every request for such a path with 403, a path into a sibling directory
\* whose name begins with the output directory's name included.
C30_NothingServedOutsideOutputDir ==
    pc = "responded" =>
        LET Inside(f) == f = output_path \/ StartsWith(f, output_path \o "/")
        IN  /\ \A f \in result.read : Inside(f)
            /\ (\E f \in result.requested : ~Inside(f)) => result.status = "403"
====
